---- MODULE Spec2Model ----
(***************************************************************************)
(* Cam and involute gear profiles of package sdf (src/sdf/cams.go).        *)
(*                                                                         *)
(* float64 values are modelled as fixed-point decimals: the integer n      *)
(* stands for the real number n / Scale.  Addition and subtraction are     *)
(* exact, products and quotients are rounded to the nearest representable  *)
(* value, and the math functions are computed to that resolution.  0/0 is  *)
(* NaN, which propagates through products and compares false.              *)
(*                                                                         *)
(* The state is the last library call: its arguments, the profile and      *)
(* error it returned, and for InvoluteGearTooth the position of its loops. *)
(***************************************************************************)
EXTENDS Integers, Sequences, FiniteSets, TLC

\* ------------------------------------------------------------------------
\* Bounds of the model

\* lifts range over -1 .. MaxLift (model units)
MaxLift == 5
\* max_diameter ranges over 4*(-1 .. MaxDiam)
MaxDiam == 10
\* cam sizes are multiples 1 .. MaxCamScale of the basic triangles
MaxCamScale == 2
\* evaluation points lie on the grid -MaxGrid .. MaxGrid (half units)
MaxGrid == 8
\* facets of a gear tooth flank range over 1 .. MaxFacets
MaxFacets == 3
\* gears have 3 .. MaxTeeth teeth
MaxTeeth == 4

\* ------------------------------------------------------------------------
\* Fixed-point arithmetic

Scale == 10^3

NaN == 0 - 2^30

IsNaN(a) == a = NaN

AbsInt(n) == IF n < 0 THEN 0 - n ELSE n

\* n / d rounded to the nearest integer, halves away from zero (d > 0)
Rnd(n, d) == IF n >= 0 THEN (2 * n + d) \div (2 * d)
                       ELSE 0 - ((2 * (0 - n) + d) \div (2 * d))

FxMul(a, b) == IF IsNaN(a) \/ IsNaN(b) THEN NaN ELSE Rnd(a * b, Scale)

FxDiv(a, b) == IF IsNaN(a) \/ IsNaN(b) \/ b = 0 THEN NaN
               ELSE IF b > 0 THEN Rnd(a * Scale, b)
               ELSE Rnd((0 - a) * Scale, 0 - b)

FxAdd(a, b) == IF IsNaN(a) \/ IsNaN(b) THEN NaN ELSE a + b

FxSub(a, b) == IF IsNaN(a) \/ IsNaN(b) THEN NaN ELSE a - b

\* float comparisons: false as soon as one side is NaN
Lt(a, b) == ~IsNaN(a) /\ ~IsNaN(b) /\ a < b
Le(a, b) == ~IsNaN(a) /\ ~IsNaN(b) /\ a <= b
Gt(a, b) == Lt(b, a)

Abs(a) == IF IsNaN(a) THEN NaN ELSE AbsInt(a)

Max(a, b) == IF a > b THEN a ELSE b

Min(a, b) == IF a < b THEN a ELSE b

RECURSIVE Newton(_, _)
Newton(n, r) == LET q == (r + n \div r) \div 2
                IN  IF q >= r THEN r ELSE Newton(n, q)

\* floor of the square root of the integer n >= 0
ISqrt(n) == IF n < 2 THEN n ELSE Newton(n, n)

\* square root of the integer n >= 0, rounded to the nearest integer
RSqrt(n) == LET r == ISqrt(n) IN IF n - r * r > r THEN r + 1 ELSE r

\* math.Sqrt
Sqrt(a) == IF IsNaN(a) \/ a < 0 THEN NaN ELSE RSqrt(a * Scale)

PI == 3142

TAU == 2 * PI

\* sine of an angle in [-PI/2, PI/2] by its series
SinSeries(y) ==
    LET y2 == FxMul(y, y)
        y3 == FxMul(y2, y)
        y5 == FxMul(y3, y2)
        y7 == FxMul(y5, y2)
        y9 == FxMul(y7, y2)
    IN  Rnd(362880 * y - 60480 * y3 + 3024 * y5 - 72 * y7 + y9, 362880)

\* math.Sin
Sin(x) ==
    LET y == ((x + PI) % TAU) - PI
        z == IF 2 * y > PI THEN PI - y
             ELSE IF 2 * y < 0 - PI THEN (0 - PI) - y ELSE y
    IN  SinSeries(z)

\* math.Cos
Cos(x) == Sin(x + PI \div 2)

\* math.Tan
Tan(x) == FxDiv(Sin(x), Cos(x))

\* arc tangent of z in [-1, 1]: one half-angle step, then the series
AtanUnit(z) ==
    LET h  == FxDiv(z, Scale + Sqrt(Scale + FxMul(z, z)))
        h2 == FxMul(h, h)
        h3 == FxMul(h2, h)
        h5 == FxMul(h3, h2)
        h7 == FxMul(h5, h2)
    IN  Rnd(2 * (105 * h - 35 * h3 + 21 * h5 - 15 * h7), 105)

\* math.Atan2, result in (-PI, PI]
Atan2(y, x) ==
    IF x = 0 /\ y = 0 THEN 0
    ELSE IF AbsInt(y) <= AbsInt(x)
         THEN IF x > 0 THEN AtanUnit(FxDiv(y, x))
              ELSE IF y >= 0 THEN PI + AtanUnit(FxDiv(y, x))
              ELSE AtanUnit(FxDiv(y, x)) - PI
         ELSE IF y > 0 THEN PI \div 2 - AtanUnit(FxDiv(x, y))
              ELSE 0 - (PI \div 2) - AtanUnit(FxDiv(x, y))

\* ------------------------------------------------------------------------
\* 2D vectors and boxes (package sdf: V2, Box2)

V2(x, y) == [X |-> x, Y |-> y]

Box2(min, max) == [Min |-> min, Max |-> max]

VAdd(a, b) == V2(FxAdd(a.X, b.X), FxAdd(a.Y, b.Y))

VSub(a, b) == V2(FxSub(a.X, b.X), FxSub(a.Y, b.Y))

MulScalar(a, k) == V2(FxMul(a.X, k), FxMul(a.Y, k))

Dot(a, b) == IF IsNaN(a.X) \/ IsNaN(a.Y) \/ IsNaN(b.X) \/ IsNaN(b.Y) THEN NaN
             ELSE Rnd(a.X * b.X + a.Y * b.Y, Scale)

Length(a) == IF IsNaN(a.X) \/ IsNaN(a.Y) THEN NaN
             ELSE RSqrt(a.X * a.X + a.Y * a.Y)

Normalize(a) == LET l == Length(a) IN V2(FxDiv(a.X, l), FxDiv(a.Y, l))

\* ------------------------------------------------------------------------
\* Cam Type 1: Flat Flank Cam

NewCam1(distance, base_radius, nose_radius) ==
    LET sin == FxDiv(base_radius - nose_radius, distance)
        cos == Sqrt(Scale - FxMul(sin, sin))
        a   == MulScalar(V2(cos, sin), base_radius)
        b   == VAdd(MulScalar(V2(cos, sin), nose_radius), V2(0, distance))
        u   == VSub(b, a)
    IN  [kind        |-> "Cam1",
         distance    |-> distance,
         base_radius |-> base_radius,
         nose_radius |-> nose_radius,
         a           |-> a,
         u           |-> Normalize(u),
         l           |-> Length(u),
         bb          |-> Box2(V2(0 - base_radius, 0 - base_radius),
                              V2(base_radius, distance + nose_radius))]

MirrorNoFold(p) == p

\* the mirrored point of Cam1.Evaluate and Cam2.Evaluate
Mirror(p) == V2(Abs(p.X), p.Y)

\* projection parameter of the mirrored point onto the flank line
Cam1T(s, p0) == Dot(VSub(p0, s.a), s.u)

\* the three branch values of Cam1.Evaluate
Cam1Base(s, p0) == FxSub(Length(p0), s.base_radius)

Cam1FlankOtherNormal(s, p0) == Dot(VSub(p0, s.a), V2(FxSub(0, s.u.Y), s.u.X))

Cam1Flank(s, p0) == Dot(VSub(p0, s.a), V2(s.u.Y, FxSub(0, s.u.X)))

Cam1Nose(s, p0) == FxSub(Length(VSub(p0, V2(0, s.distance))), s.nose_radius)

Cam1Evaluate(s, p) ==
    LET p0 == Mirror(p)
        t  == Cam1T(s, p0)
    IN  IF Lt(t, 0) THEN Cam1Base(s, p0)
        ELSE IF Le(t, s.l) THEN Cam1Flank(s, p0)
        ELSE Cam1Nose(s, p0)

\* ------------------------------------------------------------------------
\* Cam Type 2: Three Arc Cam

\* center of the flank circle
Cam2FlankCenter(distance, base_radius, nose_radius, flank_radius) ==
    LET r0 == flank_radius - base_radius
        r1 == flank_radius - nose_radius
        y  == FxDiv(FxMul(r0, r0) - FxMul(r1, r1) + FxMul(distance, distance),
                    2 * distance)
        x  == FxSub(0, Sqrt(FxMul(r0, r0) - FxMul(y, y)))
    IN  V2(x, y)

\* the vector p whose direction is stored as theta_base
Cam2BaseVector(c, flank_radius) ==
    VSub(MulScalar(Normalize(VSub(V2(0, 0), c)), flank_radius), c)

\* the vector p whose direction is stored as theta_nose
Cam2NoseVector(c, distance, flank_radius) ==
    VSub(MulScalar(Normalize(VSub(V2(0, distance), c)), flank_radius), c)

NewCam2(distance, base_radius, nose_radius, flank_radius) ==
    LET c  == Cam2FlankCenter(distance, base_radius, nose_radius, flank_radius)
        pb == Cam2BaseVector(c, flank_radius)
        pn == Cam2NoseVector(c, distance, flank_radius)
    IN  [kind         |-> "Cam2",
         distance     |-> distance,
         base_radius  |-> base_radius,
         nose_radius  |-> nose_radius,
         flank_radius |-> flank_radius,
         flank_center |-> c,
         theta_base   |-> Atan2(pb.Y, pb.X),
         theta_nose   |-> Atan2(pn.Y, pn.X),
         bb           |-> Box2(V2(0 - base_radius, 0 - base_radius),
                               V2(base_radius, distance + nose_radius))]

Cam2Evaluate(s, p) ==
    LET p0 == Mirror(p)
        v  == VSub(p0, s.flank_center)
        t  == Atan2(v.Y, v.X)
    IN  IF Lt(t, s.theta_base) THEN FxSub(Length(p0), s.base_radius)
        ELSE IF Gt(t, s.theta_nose)
             THEN FxSub(Length(VSub(p0, V2(0, s.distance))), s.nose_radius)
        ELSE FxSub(Length(v), s.flank_radius)

\* ------------------------------------------------------------------------
\* Collaborators of the gear profiles (package sdf)

\* SawTooth(x, period): x folded into the period centred on 0, so that
\* Abs(SawTooth(x, pitch)) lies in [0, pitch/2] as GearRack.Evaluate expects
SawTooth(x, period) ==
    LET h == FxDiv(period, 2 * Scale)
    IN  ((x + h) % period) - h

\* Rotate(theta).MulPosition(p)
RotatePosition(theta, p) ==
    LET c == Cos(theta)
        s == Sin(theta)
    IN  V2(FxMul(c, p.X) - FxMul(s, p.Y), FxMul(s, p.X) + FxMul(c, p.Y))

PolyCross(a, b) == a.X * b.Y - a.Y * b.X

\* distance from p to the segment a-b
SegmentDistance(p, a, b) ==
    LET e  == VSub(b, a)
        pa == VSub(p, a)
        t  == pa.X * e.X + pa.Y * e.Y
    IN  IF t <= 0 THEN Length(pa)
        ELSE IF t >= e.X * e.X + e.Y * e.Y THEN Length(VSub(p, b))
        ELSE AbsInt(Rnd(PolyCross(e, pa), Length(e)))

\* contribution of the edge a-b to the winding number of the polygon about p
EdgeWinding(p, a, b) ==
    IF a.Y <= p.Y /\ b.Y > p.Y /\ PolyCross(VSub(b, a), VSub(p, a)) > 0 THEN 1
    ELSE IF a.Y > p.Y /\ b.Y <= p.Y /\ PolyCross(VSub(b, a), VSub(p, a)) < 0
         THEN 0 - 1
    ELSE 0

RECURSIVE PolyMinDistance(_, _, _)
PolyMinDistance(v, p, k) ==
    LET n == Len(v)
        d == SegmentDistance(p, v[k], v[(k % n) + 1])
    IN  IF k = n THEN d ELSE Min(d, PolyMinDistance(v, p, k + 1))

RECURSIVE PolyWinding(_, _, _)
PolyWinding(v, p, k) ==
    LET n == Len(v)
        w == EdgeWinding(p, v[k], v[(k % n) + 1])
    IN  IF k = n THEN w ELSE w + PolyWinding(v, p, k + 1)

\* NewPolySDF2(v).Evaluate(p): signed distance to the closed polygon v
PolyEvaluate(v, p) ==
    IF PolyWinding(v, p, 1) # 0 THEN 0 - PolyMinDistance(v, p, 1)
    ELSE PolyMinDistance(v, p, 1)

\* NewCircleSDF2(radius).Evaluate(p)
CircleEvaluate(radius, p) == Length(p) - radius

\* NewRotateSDF2(tooth, num, Rotate2d(step)).Evaluate(p): union of num
\* copies of the polygon, copy k turned by k * step
RECURSIVE RotateEvaluate(_, _, _, _, _)
RotateEvaluate(v, num, step, p, k) ==
    LET d == PolyEvaluate(v, RotatePosition(0 - k * step, p))
    IN  IF k = num - 1 THEN d
        ELSE Min(d, RotateEvaluate(v, num, step, p, k + 1))

\* ------------------------------------------------------------------------
\* Involute gears

involute(r, theta) ==
    LET c == Cos(theta)
        s == Sin(theta)
    IN  V2(FxMul(r, c + FxMul(theta, s)), FxMul(r, s - FxMul(theta, c)))

involute_angle(r, d) ==
    LET x == FxDiv(d, r)
    IN  Sqrt(FxMul(x, x) - Scale)

\* number of vertices InvoluteGearTooth allocates
ToothVertexCount(facets) == 2 * (facets + 1) + 1

\* slots read and written by pass i of the upper tooth face loop
UpperSource(facets, i) == facets - i

UpperTargetShifted(facets, i) == facets + i

UpperTarget(facets, i) == facets + 1 + i

\* the values InvoluteGearTooth derives before it fills the vertices
ToothSetup(number_teeth, gear_module, root_radius, base_radius, outer_radius, backlash, facets) ==
    LET pitch_radius   == Rnd(number_teeth * gear_module, 2)
        pitch_point    == involute(base_radius,
                                   involute_angle(base_radius, pitch_radius))
        face_angle     == Atan2(pitch_point.Y, pitch_point.X)
        backlash_angle == FxDiv(backlash, 2 * pitch_radius)
        center_angle   == Rnd(PI, 2 * number_teeth) + face_angle
                            - backlash_angle
        start_angle    == involute_angle(base_radius,
                                         Max(base_radius, root_radius))
        stop_angle     == involute_angle(base_radius, outer_radius)
    IN  [base_radius  |-> base_radius,
         center_angle |-> center_angle,
         start_angle  |-> start_angle,
         dtheta       |-> Rnd(stop_angle - start_angle, facets),
         facets       |-> facets]

\* the radii InvoluteGear derives for the tooth, the root and the ring
GearSetup(number_teeth, gear_module, pressure_angle, backlash, clearance, ring_width, facets) ==
    LET pitch_radius == Rnd(number_teeth * gear_module, 2)
        base_radius  == FxMul(pitch_radius, Cos(pressure_angle))
        addendum     == gear_module
        dedendum     == addendum + clearance
        outer_radius == pitch_radius + addendum
        root_radius  == pitch_radius - dedendum
    IN  [number_teeth |-> number_teeth,
         root_radius  |-> root_radius,
         ring_radius  |-> root_radius - ring_width,
         tooth        |-> ToothSetup(number_teeth, gear_module, root_radius,
                                     base_radius, outer_radius, backlash,
                                     facets)]

\* the polygon as the sequence handed to NewPolySDF2
ToothPolygon(v, facets) == [k \in 1 .. ToothVertexCount(facets) |-> v[k - 1]]

\* InvoluteGear's result: (teeth union root disk) minus ring disk
NewGear(g, v) ==
    [kind         |-> "Gear",
     number_teeth |-> g.number_teeth,
     root_radius  |-> g.root_radius,
     ring_radius  |-> g.ring_radius,
     tooth        |-> ToothPolygon(v, g.tooth.facets)]

GearEvaluate(s, p) ==
    LET gear  == RotateEvaluate(s.tooth, s.number_teeth,
                                FxDiv(TAU, s.number_teeth * Scale), p, 0)
        union == Min(gear, CircleEvaluate(s.root_radius, p))
    IN  Max(union, 0 - CircleEvaluate(s.ring_radius, p))

\* ------------------------------------------------------------------------
\* 2D Gear Rack

NewGearRack(number_teeth, gear_module, pressure_angle, backlash, base_height) ==
    LET addendum     == gear_module
        dedendum     == FxMul(gear_module, 1250)
        tooth_height == base_height + addendum + dedendum
        pitch        == FxMul(gear_module, PI)
        dx           == FxMul(addendum + dedendum, Tan(pressure_angle))
        dxt          == FxDiv(FxDiv(pitch, 2 * Scale) - dx, 2 * Scale)
        bl           == FxDiv(backlash, 2 * Scale)
        length       == FxDiv(FxMul(pitch, number_teeth), 2 * Scale)
    IN  [kind   |-> "GearRack",
         tooth  |-> <<V2(pitch, 0),
                      V2(pitch, base_height),
                      V2(dx + dxt - bl, base_height),
                      V2(dxt - bl, tooth_height),
                      V2(0 - pitch, tooth_height),
                      V2(0 - pitch, 0)>>,
         pitch  |-> pitch,
         length |-> length,
         bb     |-> Box2(V2(0 - length, 0), V2(length, tooth_height))]

RackToothDistanceNoFold(s, p) == PolyEvaluate(s.tooth, V2(Abs(p.X), p.Y))

\* the tooth profile distance d0 of GearRack.Evaluate
RackToothDistance(s, p) ==
    PolyEvaluate(s.tooth, V2(Abs(SawTooth(p.X, s.pitch)), p.Y))

\* the rack length region d1 of GearRack.Evaluate
RackLengthDistance(s, p) == Abs(p.X) - s.length

GearRackEvaluate(s, p) ==
    Max(RackToothDistance(s, p), RackLengthDistance(s, p))

\* ------------------------------------------------------------------------
\* MakeCam

Nil == [kind |-> "nil"]

NoError == "nil"

MakeCamBaseRadius(lift, max_diameter) ==
    FxSub(FxDiv(max_diameter, 2 * Scale), lift)

MakeCamNoseRadiusNoQuotient(lift, duration, max_diameter) ==
    LET c == Cos(FxDiv(duration, 2 * Scale))
    IN  FxSub(MakeCamBaseRadius(lift, max_diameter), FxMul(lift, c))

MakeCamNoseRadius(lift, duration, max_diameter) ==
    LET c == Cos(FxDiv(duration, 2 * Scale))
    IN  FxSub(MakeCamBaseRadius(lift, max_diameter),
              FxDiv(FxMul(lift, c), Scale - c))

\* MakeCam with the type dispatched before the base radius is checked
MakeCamTypeFirst(cam_type, lift, duration, max_diameter) ==
    LET base_radius == MakeCamBaseRadius(lift, max_diameter)
        nose_radius == MakeCamNoseRadius(lift, duration, max_diameter)
        distance    == base_radius + lift - nose_radius
    IN  IF max_diameter <= 0 THEN [sdf |-> Nil, err |-> "max_diameter <= 0"]
        ELSE IF lift <= 0 THEN [sdf |-> Nil, err |-> "lift <= 0"]
        ELSE IF duration <= 0 \/ duration >= PI
             THEN [sdf |-> Nil, err |-> "invalid duration"]
        ELSE IF cam_type \notin {"flat_flank", "three_arc"}
             THEN [sdf |-> Nil, err |-> "unknown cam_type"]
        ELSE IF base_radius <= 0 THEN [sdf |-> Nil, err |-> "base_radius <= 0"]
        ELSE IF cam_type = "flat_flank"
             THEN IF nose_radius <= 0
                  THEN [sdf |-> Nil, err |-> "nose_radius <= 0"]
                  ELSE [sdf |-> NewCam1(distance, base_radius, nose_radius),
                        err |-> NoError]
        ELSE [sdf |-> Nil, err |-> NoError]

\* MakeCam with the nose radius added to the centre distance
MakeCamDistancePlus(cam_type, lift, duration, max_diameter) ==
    LET base_radius == MakeCamBaseRadius(lift, max_diameter)
        nose_radius == MakeCamNoseRadius(lift, duration, max_diameter)
        distance    == base_radius + lift + nose_radius
    IN  IF max_diameter <= 0 THEN [sdf |-> Nil, err |-> "max_diameter <= 0"]
        ELSE IF lift <= 0 THEN [sdf |-> Nil, err |-> "lift <= 0"]
        ELSE IF duration <= 0 \/ duration >= PI
             THEN [sdf |-> Nil, err |-> "invalid duration"]
        ELSE IF base_radius <= 0 THEN [sdf |-> Nil, err |-> "base_radius <= 0"]
        ELSE IF cam_type = "flat_flank"
             THEN IF nose_radius <= 0
                  THEN [sdf |-> Nil, err |-> "nose_radius <= 0"]
                  ELSE [sdf |-> NewCam1(distance, base_radius, nose_radius),
                        err |-> NoError]
        ELSE IF cam_type = "three_arc" THEN [sdf |-> Nil, err |-> NoError]
        ELSE [sdf |-> Nil, err |-> "unknown cam_type"]

MakeCam(cam_type, lift, duration, max_diameter) ==
    LET base_radius == MakeCamBaseRadius(lift, max_diameter)
        nose_radius == MakeCamNoseRadius(lift, duration, max_diameter)
        distance    == base_radius + lift - nose_radius
    IN  IF max_diameter <= 0 THEN [sdf |-> Nil, err |-> "max_diameter <= 0"]
        ELSE IF lift <= 0 THEN [sdf |-> Nil, err |-> "lift <= 0"]
        ELSE IF duration <= 0 \/ duration >= PI
             THEN [sdf |-> Nil, err |-> "invalid duration"]
        ELSE IF base_radius <= 0 THEN [sdf |-> Nil, err |-> "base_radius <= 0"]
        ELSE IF cam_type = "flat_flank"
             THEN IF nose_radius <= 0
                  THEN [sdf |-> Nil, err |-> "nose_radius <= 0"]
                  ELSE [sdf |-> NewCam1(distance, base_radius, nose_radius),
                        err |-> NoError]
        ELSE IF cam_type = "three_arc" THEN [sdf |-> Nil, err |-> NoError]
        ELSE [sdf |-> Nil, err |-> "unknown cam_type"]

\* ------------------------------------------------------------------------
\* Queries common to the profiles

BoundingBox(s) == s.bb

\* ------------------------------------------------------------------------
\* Inputs

Unit == Scale

Half == Scale \div 2

CamTypes == {"flat_flank", "three_arc", "other"}

Lifts == {k * Unit : k \in (0 - 1) .. MaxLift}

Diameters == {4 * k * Unit : k \in (0 - 1) .. MaxDiam}

\* multiples of PI/6 from below 0 to above PI
Durations == {Rnd(k * PI, 6) : k \in (0 - 1) .. 7}

\* Cam1 geometries <<distance, base_radius, nose_radius>> whose flank
\* direction (cos, sin) is representable: sin in {0, +-3/5, +-4/5, +-1}
Cam1Params ==
    {<<5 * k * Half,
       n * Half + (IF j > 0 THEN j * k * Half ELSE 0),
       n * Half + (IF j < 0 THEN (0 - j) * k * Half ELSE 0)>> :
         k \in 1 .. MaxCamScale, n \in 1 .. 3,
         j \in {0 - 5, 0 - 4, 0 - 3, 0, 3, 4, 5}}

\* Cam2 geometries <<distance, base_radius, nose_radius, flank_radius>>
\* whose two tangent circles of radius r0, r1 and the distance form a
\* triangle with a representable flank centre
Cam2Triangles == {<<3, 4, 5>>, <<4, 5, 3>>, <<5, 5, 6>>, <<5, 5, 8>>}

Cam2Params ==
    {<<t[3] * k * Half, (t[2] + n - t[1]) * k * Half, n * k * Half,
       (t[2] + n) * k * Half>> :
         t \in Cam2Triangles, k \in 1 .. MaxCamScale, n \in 1 .. 2}

Grid == {V2(i * Half, j * Half) :
           i \in (0 - MaxGrid) .. MaxGrid, j \in (0 - MaxGrid) .. MaxGrid}

\* gear inputs <<number_teeth, gear_module, pressure_angle, backlash,
\* clearance, ring_width, facets>>
GearParams ==
    {<<n, Unit, Rnd(PI, 9), b, 0, Unit \div 5, f>> :
        n \in 3 .. MaxTeeth, b \in {0, Unit \div 10}, f \in 1 .. MaxFacets}

\* rack inputs <<number_teeth, gear_module, pressure_angle, backlash,
\* base_height>>
RackParams ==
    {<<n, Unit, a, b, h>> :
        n \in {2 * Unit, 5 * Half}, a \in {0, Rnd(PI, 9)},
        b \in {0, Unit \div 10}, h \in {Half, Unit}}

\* ------------------------------------------------------------------------
\* State

VARIABLES
    op,     \* the last call made
    args,   \* the arguments of the constructing call
    prof,   \* the profile the constructing call returned, or Nil
    err,    \* the error the constructing call returned, or NoError
    pt,     \* the point of the Evaluate call
    val,    \* the distance Evaluate returned
    box,    \* the box BoundingBox returned
    tb      \* InvoluteGearTooth in progress: its locals and position

vars == <<op, args, prof, err, pt, val, box, tb>>

NoPoint == V2(NaN, NaN)

NoBox == Box2(NoPoint, NoPoint)

NoArgs == [none |-> TRUE]

NoTooth == [pc |-> "idle"]

Constructors == {"MakeCam", "NewCam1", "NewCam2", "NewGearRack", "InvoluteGear"}

Init ==
    /\ op = "init"
    /\ args = NoArgs
    /\ prof = Nil
    /\ err = NoError
    /\ pt = NoPoint
    /\ val = NaN
    /\ box = NoBox
    /\ tb = NoTooth

MakeCamCall ==
    /\ op = "init"
    /\ \E cam_type \in CamTypes, lift \in Lifts, duration \in Durations,
          max_diameter \in Diameters :
         LET r == MakeCam(cam_type, lift, duration, max_diameter)
         IN  /\ args' = [cam_type |-> cam_type, lift |-> lift,
                         duration |-> duration, max_diameter |-> max_diameter]
             /\ prof' = r.sdf
             /\ err' = r.err
    /\ op' = "MakeCam"
    /\ UNCHANGED <<pt, val, box, tb>>

NewCam1Call ==
    /\ op = "init"
    /\ \E g \in Cam1Params :
         /\ args' = [distance |-> g[1], base_radius |-> g[2],
                     nose_radius |-> g[3]]
         /\ prof' = NewCam1(g[1], g[2], g[3])
    /\ op' = "NewCam1"
    /\ UNCHANGED <<err, pt, val, box, tb>>

NewCam2Call ==
    /\ op = "init"
    /\ \E g \in Cam2Params :
         /\ args' = [distance |-> g[1], base_radius |-> g[2],
                     nose_radius |-> g[3], flank_radius |-> g[4]]
         /\ prof' = NewCam2(g[1], g[2], g[3], g[4])
    /\ op' = "NewCam2"
    /\ UNCHANGED <<err, pt, val, box, tb>>

NewGearRackCall ==
    /\ op = "init"
    /\ \E g \in RackParams :
         /\ args' = [number_teeth |-> g[1], gear_module |-> g[2],
                     pressure_angle |-> g[3], backlash |-> g[4],
                     base_height |-> g[5]]
         /\ prof' = NewGearRack(g[1], g[2], g[3], g[4], g[5])
    /\ op' = "NewGearRack"
    /\ UNCHANGED <<err, pt, val, box, tb>>

\* InvoluteGear up to the allocation of the vertices in InvoluteGearTooth
InvoluteGearCall ==
    /\ op = "init"
    /\ \E g \in GearParams :
         LET setup == GearSetup(g[1], g[2], g[3], g[4], g[5], g[6], g[7])
             slots == 0 .. ToothVertexCount(g[7]) - 1
         IN  /\ args' = [number_teeth |-> g[1], gear_module |-> g[2],
                         pressure_angle |-> g[3], backlash |-> g[4],
                         clearance |-> g[5], ring_width |-> g[6],
                         facets |-> g[7]]
             /\ tb' = [pc     |-> "lower",
                       i      |-> 0,
                       angle  |-> setup.tooth.start_angle,
                       v      |-> [k \in slots |-> V2(0, 0)],
                       writes |-> [k \in slots |-> 0],
                       facets |-> g[7],
                       gear   |-> setup]
    /\ op' = "InvoluteGear"
    /\ UNCHANGED <<prof, err, pt, val, box>>

\* one pass of the lower tooth face loop, or its exit
ToothLowerStep ==
    /\ tb.pc = "lower"
    /\ IF tb.i <= tb.facets
       THEN tb' = [tb EXCEPT
                       !.v[tb.i] = RotatePosition(
                                       0 - tb.gear.tooth.center_angle,
                                       involute(tb.gear.tooth.base_radius,
                                                tb.angle)),
                       !.writes[tb.i] = @ + 1,
                       !.angle = @ + tb.gear.tooth.dtheta,
                       !.i = @ + 1]
       ELSE tb' = [tb EXCEPT !.pc = "upper", !.i = 0]
    /\ UNCHANGED <<op, args, prof, err, pt, val, box>>

\* one pass of the upper tooth face loop, or its exit
ToothUpperStep ==
    /\ tb.pc = "upper"
    /\ IF tb.i <= tb.facets
       THEN LET p == tb.v[UpperSource(tb.facets, tb.i)]
            IN  tb' = [tb EXCEPT
                           !.v[UpperTarget(tb.facets, tb.i)] = V2(p.X, 0 - p.Y),
                           !.writes[UpperTarget(tb.facets, tb.i)] = @ + 1,
                           !.i = @ + 1]
       ELSE tb' = [tb EXCEPT !.pc = "close"]
    /\ UNCHANGED <<op, args, prof, err, pt, val, box>>

\* the closing vertex, the polygon, and InvoluteGear's composition
ToothClose ==
    /\ tb.pc = "close"
    /\ tb' = [tb EXCEPT !.v[2 * (tb.facets + 1)] = V2(0, 0),
                        !.writes[2 * (tb.facets + 1)] = @ + 1,
                        !.pc = "done"]
    /\ prof' = NewGear(tb.gear, tb'.v)
    /\ UNCHANGED <<op, args, err, pt, val, box>>

Evaluate(s, p) ==
    IF s.kind = "Cam1" THEN Cam1Evaluate(s, p)
    ELSE IF s.kind = "Cam2" THEN Cam2Evaluate(s, p)
    ELSE IF s.kind = "GearRack" THEN GearRackEvaluate(s, p)
    ELSE GearEvaluate(s, p)

\* profiles are immutable, so one query after the construction stands for
\* any sequence of queries
EvaluateCall ==
    /\ op \in Constructors
    /\ prof # Nil
    /\ \E p \in Grid :
         /\ pt' = p
         /\ val' = Evaluate(prof, p)
    /\ op' = "Evaluate"
    /\ UNCHANGED <<args, prof, err, box, tb>>

BoundingBoxCall ==
    /\ op \in Constructors
    /\ prof # Nil
    /\ "bb" \in DOMAIN prof
    /\ box' = BoundingBox(prof)
    /\ op' = "BoundingBox"
    /\ UNCHANGED <<args, prof, err, pt, val, tb>>

Next ==
    \/ MakeCamCall
    \/ NewCam1Call
    \/ NewCam2Call
    \/ NewGearRackCall
    \/ InvoluteGearCall
    \/ ToothLowerStep
    \/ ToothUpperStep
    \/ ToothClose
    \/ EvaluateCall
    \/ BoundingBoxCall

Spec == Init /\ [][Next]_vars

\* ------------------------------------------------------------------------
\* Properties

ByMakeCam == "cam_type" \in DOMAIN args

ByNewCam1 == "nose_radius" \in DOMAIN args /\ "flank_radius" \notin DOMAIN args

ByNewCam2 == "flank_radius" \in DOMAIN args

\* the failure MakeCam's contract asks for: the first violated condition in
\* the order max_diameter, lift, duration, base_radius, nose_radius
\* (flat_flank only), cam_type
ExpectedError(a) ==
    LET rb == a.max_diameter \div 2 - a.lift
        c  == Cos(FxDiv(a.duration, 2 * Scale))
        rn == rb - FxDiv(FxMul(a.lift, c), Scale - c)
    IN  IF a.max_diameter <= 0 THEN "max_diameter <= 0"
        ELSE IF a.lift <= 0 THEN "lift <= 0"
        ELSE IF a.duration <= 0 \/ a.duration >= PI THEN "invalid duration"
        ELSE IF rb <= 0 THEN "base_radius <= 0"
        ELSE IF a.cam_type = "flat_flank" /\ rn <= 0 THEN "nose_radius <= 0"
        ELSE IF a.cam_type \notin {"flat_flank", "three_arc"}
             THEN "unknown cam_type"
        ELSE NoError

\* C1: MakeCam fails, with no profile and the error of the first violated
\* condition, whenever one of its validation conditions is violated, and for
\* flat_flank it returns a Cam1 and no error exactly when none is violated.
C1_MakeCamValidation ==
    ByMakeCam =>
        /\ ExpectedError(args) # NoError
             => err = ExpectedError(args) /\ prof = Nil
        /\ args.cam_type = "flat_flank"
             => ((prof.kind = "Cam1" /\ err = NoError)
                    <=> ExpectedError(args) = NoError)

\* a call where two conditions are violated and the earlier one is reported
C1_Witness ==
    /\ op = "MakeCam"
    /\ args.cam_type = "other"
    /\ args.max_diameter > 0 /\ args.lift > 0
    /\ args.duration > 0 /\ args.duration < PI
    /\ err = "base_radius <= 0"
    /\ prof = Nil

\* C2: every MakeCam call returns a profile or a failure, never neither
\* (three_arc with valid inputs included).
C2_ProfileOrError ==
    ByMakeCam => (prof # Nil \/ err # NoError)

C3Call ==
    /\ ByMakeCam
    /\ args = [cam_type |-> "flat_flank", lift |-> 5 * Unit,
               duration |-> Rnd(PI, 3), max_diameter |-> 40 * Unit]

\* C3 as stated: MakeCam(flat_flank, 5, PI/3, 40) succeeds with base_radius
\* 15 and a positive derived nose_radius.
C3_ExampleSucceeds ==
    C3Call =>
        /\ prof.kind = "Cam1" /\ err = NoError
        /\ MakeCamBaseRadius(args.lift, args.max_diameter) = 15 * Unit
        /\ MakeCamNoseRadius(args.lift, args.duration, args.max_diameter) > 0

\* C3 amended: MakeCam(flat_flank, 5, PI/3, 40) derives base_radius 15 and a
\* nose_radius <= 0, and fails with the nose_radius error and no profile.
C3_ExampleFails ==
    C3Call =>
        /\ prof = Nil /\ err = "nose_radius <= 0"
        /\ MakeCamBaseRadius(args.lift, args.max_diameter) = 15 * Unit
        /\ MakeCamNoseRadius(args.lift, args.duration, args.max_diameter) <= 0

C3_Witness == C3Call /\ op = "MakeCam" /\ prof = Nil

ValidCam1 ==
    /\ ByNewCam1
    /\ prof.distance > 0 /\ prof.base_radius > 0 /\ prof.nose_radius > 0
    /\ AbsInt(prof.base_radius - prof.nose_radius) <= prof.distance

InsideBox(p, b) ==
    /\ b.Min.X <= p.X /\ p.X <= b.Max.X
    /\ b.Min.Y <= p.Y /\ p.Y <= b.Max.Y

\* C4: the bounding box of a valid Cam1 is [(-r_b,-r_b), (r_b, d+r_n)], has
\* min <= max, and contains every point whose distance is <= 0.
C4_BoxEncloses ==
    ValidCam1 =>
        /\ op = "BoundingBox" =>
             /\ box = Box2(V2(0 - prof.base_radius, 0 - prof.base_radius),
                           V2(prof.base_radius,
                              prof.distance + prof.nose_radius))
             /\ box.Min.X <= box.Max.X /\ box.Min.Y <= box.Max.Y
        /\ (op = "Evaluate" /\ val <= 0) => InsideBox(pt, BoundingBox(prof))

\* C7: on a valid Cam1 the flank-line value equals the base-circle value
\* where t = 0 and the nose-circle value where t = l, and Evaluate returns
\* that common value; a lies on the base circle, b on the nose circle, and
\* the flank is perpendicular to the radius at both ends.
C7_BranchesAgree ==
    (ValidCam1 /\ op = "Evaluate") =>
        LET p0 == Mirror(pt)
            t  == Cam1T(prof, p0)
            b  == VAdd(prof.a, MulScalar(prof.u, prof.l))
            nc == V2(0, prof.distance)
        IN  /\ t = 0 => /\ Cam1Flank(prof, p0) = Cam1Base(prof, p0)
                        /\ val = Cam1Base(prof, p0)
            /\ t = prof.l => /\ Cam1Flank(prof, p0) = Cam1Nose(prof, p0)
                             /\ val = Cam1Nose(prof, p0)
            /\ Length(prof.a) = prof.base_radius
            /\ prof.l > 0 =>
                 /\ Length(VSub(b, nc)) = prof.nose_radius
                 /\ Dot(prof.a, prof.u) = 0
                 /\ Dot(VSub(b, nc), prof.u) = 0

\* a point off the profile on the boundary between flank and nose branch
C7_Witness ==
    /\ ValidCam1 /\ op = "Evaluate"
    /\ prof.l > 0
    /\ Cam1T(prof, Mirror(pt)) = prof.l
    /\ val # 0

\* C8: a flat_flank profile returned by MakeCam has d > 0, 0 < r_n < r_b,
\* 0 < (r_b - r_n)/d < 1, d + r_n = max_diameter/2 and d + r_n - r_b = lift.
C8_DesignRealised ==
    (ByMakeCam /\ prof.kind = "Cam1") =>
        /\ prof.distance > 0
        /\ 0 < prof.nose_radius /\ prof.nose_radius < prof.base_radius
        /\ 0 < FxDiv(prof.base_radius - prof.nose_radius, prof.distance)
        /\ FxDiv(prof.base_radius - prof.nose_radius, prof.distance) < Scale
        /\ 2 * (prof.distance + prof.nose_radius) = args.max_diameter
        /\ prof.distance + prof.nose_radius - prof.base_radius = args.lift

C8_Witness ==
    /\ ByMakeCam /\ op = "MakeCam" /\ prof.kind = "Cam1"
    /\ args.lift = 2 * Unit

Cross(a, b) == a.X * b.Y - a.Y * b.X

PositiveMultiple(p, q) == Cross(p, q) = 0 /\ p.X * q.X + p.Y * q.Y > 0

\* C10: theta_base is the direction of (origin - c) and theta_nose the
\* direction of ((0,d) - c), the stored vectors being positive multiples
\* of these.
C10_FlankAngles ==
    op = "NewCam2" =>
        LET c  == prof.flank_center
            toBase == VSub(V2(0, 0), c)
            toNose == VSub(V2(0, prof.distance), c)
        IN  /\ c.X < 0
            /\ PositiveMultiple(Cam2BaseVector(c, prof.flank_radius), toBase)
            /\ prof.theta_base = Atan2(toBase.Y, toBase.X)
            /\ PositiveMultiple(
                   Cam2NoseVector(c, prof.distance, prof.flank_radius), toNose)
            /\ prof.theta_nose = Atan2(toNose.Y, toNose.X)

MirrorPoint(p) == V2(0 - p.X, p.Y)

ShiftPoint(p, dx) == V2(p.X + dx, p.Y)

RackInterior(s, p) ==
    /\ 0 - s.length < p.X /\ p.X < s.length
    /\ 0 - s.length < p.X + s.pitch /\ p.X + s.pitch < s.length

\* C6 as stated: Evaluate(x+pitch, y) = Evaluate(x, y) whenever x and
\* x+pitch lie strictly inside [-half_length, half_length].
C6_EvaluatePeriodic ==
    (op = "Evaluate" /\ prof.kind = "GearRack" /\ RackInterior(prof, pt))
        => val = Evaluate(prof, ShiftPoint(pt, prof.pitch))

\* C6 amended: Evaluate is max(d0, d1), the tooth-profile distance d0 has
\* period pitch in x, and Evaluate(x+pitch, y) = Evaluate(x, y) at interior
\* points where d1 <= d0 both at x and at x+pitch.
C6_ToothTermPeriodic ==
    (op = "Evaluate" /\ prof.kind = "GearRack") =>
        LET q == ShiftPoint(pt, prof.pitch)
        IN  /\ val = Max(RackToothDistance(prof, pt),
                         RackLengthDistance(prof, pt))
            /\ RackToothDistance(prof, q) = RackToothDistance(prof, pt)
            /\ ( /\ RackInterior(prof, pt)
                 /\ RackLengthDistance(prof, pt) <= RackToothDistance(prof, pt)
                 /\ RackLengthDistance(prof, q) <= RackToothDistance(prof, q) )
                 => val = Evaluate(prof, q)

\* an interior point inside the rack body where the two terms are ordered
\* as the amended claim asks
C6_Witness ==
    /\ op = "Evaluate" /\ prof.kind = "GearRack"
    /\ RackInterior(prof, pt)
    /\ val < 0
    /\ RackLengthDistance(prof, pt) <= RackToothDistance(prof, pt)
    /\ RackLengthDistance(prof, ShiftPoint(pt, prof.pitch))
         <= RackToothDistance(prof, ShiftPoint(pt, prof.pitch))

\* C9: the tooth has 2*(facets+1)+1 vertices, no slot is written twice and
\* at the end every slot was written once, the last vertex is the origin,
\* and vertex facets+1+i is the y-negation of vertex facets-i.
C9_ToothVertices ==
    tb.pc # "idle" =>
        LET f == tb.facets
            n == 2 * (f + 1) + 1
        IN  /\ f >= 1
            /\ DOMAIN tb.v = 0 .. n - 1
            /\ \A k \in DOMAIN tb.writes : tb.writes[k] <= 1
            /\ tb.pc = "done" =>
                 /\ \A k \in 0 .. n - 1 : tb.writes[k] = 1
                 /\ tb.v[n - 1] = V2(0, 0)
                 /\ \A i \in 0 .. f :
                      tb.v[f + 1 + i] = V2(tb.v[f - i].X, 0 - tb.v[f - i].Y)
                 /\ Len(prof.tooth) = n

\* a finished tooth with several facets whose flank is off the x axis
C9_Witness ==
    /\ tb.pc = "done"
    /\ tb.facets >= 2
    /\ \A i \in 0 .. tb.facets : tb.v[i].Y # 0
    /\ \A i, j \in 0 .. tb.facets : i # j => tb.v[i] # tb.v[j]

====
